---- MODULE Spec2Model ----
(***************************************************************************)
(* A model of build_tools/i18n/fonts.py: the unicode-range encoder, the    *)
(* font priority resolver, full-font generation (fonts + modern/basic CSS) *)
(* and subset-font generation (subset, merge, inline CSS).                 *)
(*                                                                         *)
(* A Python str object is a record [value, id]: `value` is what == and     *)
(* `in` compare, `id` is what `is` compares.  The module constant          *)
(* NOTO_SANS_LATIN has id "const"; a str decoded from the language or      *)
(* manifest JSON has id "json".                                            *)
(***************************************************************************)
EXTENDS Integers, Sequences, FiniteSets, TLC

VARIABLES
    pc,                \* position of the running command / harness
    input_list,        \* argument of _list_to_ranges
    ranges,            \* what _list_to_ranges yielded
    default_font,      \* argument of _font_priorities (a str object)
    font_names,        \* what _font_priorities returned
    font_manifest,     \* noto_source.FONT_MANIFEST, in manifest order
    languages,         \* utils.supported_languages(...), in configured order
    source_fonts,      \* the downloaded source fonts, by family
    files,             \* the files of OUTPUT_PATH, by name
    glyph_cache,       \* memo of _font_glyphs, by path
    priority_cache,    \* memo of _font_priorities, by default font
    previous_glyphs,   \* local of _gen_full_css_modern (its last value)
    encoded,           \* every glyph set _fmt_range has been called with
    run,               \* which run of command_gen_full_fonts this is
    first_css,         \* the noto-full CSS files as the first run left them
    lang_idx,          \* loop index over languages / jobs
    text,              \* text argument of _subset_and_merge_fonts
    candidates,        \* the priority list being walked
    font_idx,          \* position of the walk in candidates
    remaining_glyphs,  \* local of _subset_and_merge_fonts
    reg_subsets,       \* local of _subset_and_merge_fonts
    bold_subsets,      \* local of _subset_and_merge_fonts
    skipped            \* local of _subset_and_merge_fonts

pureVars == <<input_list, ranges, default_font, font_names>>
confVars == <<font_manifest, languages, source_fonts>>
fullVars == <<previous_glyphs, run, first_css>>
walkVars == <<text, candidates, font_idx, remaining_glyphs, reg_subsets, bold_subsets, skipped>>
genVars == <<files, glyph_cache, priority_cache, encoded, lang_idx>>
vars == <<pc, pureVars, confVars, fullVars, walkVars, genVars>>

(***************************************************************************)
(* Bounds of the model.                                                    *)
(***************************************************************************)
\* _list_to_ranges inputs are subsets of 65..65+MaxRun plus {88, 90, 91}
MaxRun == 2
\* at most this many configured languages for _font_priorities
MaxLangs == 2
\* glyph codepoints of the generation runs are 15 .. 15+MaxCode
MaxCode == 1

(***************************************************************************)
(* Constants of the program.                                               *)
(***************************************************************************)
NOTO_SANS_LATIN == [value |-> "NotoSans", id |-> "const"]
SCOPE_FULL == "noto-full"
SCOPE_SUBSET == "noto-subset"
SCOPE_COMMON == "noto-common"
MERGE_UNITS_PER_EM == 1000

\* a str object decoded from JSON configuration
Json(v) == [value |-> v, id |-> "json"]

(***************************************************************************)
(* Helpers on sequences.                                                   *)
(***************************************************************************)
Range(s) == {s[i] : i \in 1..Len(s)}

RECURSIVE Insert(_, _)
Insert(x, s) ==
    IF s = <<>> THEN <<x>>
    ELSE IF x <= Head(s) THEN <<x>> \o s
    ELSE <<Head(s)>> \o Insert(x, Tail(s))

\* list.sort() / sorted()
RECURSIVE Sorted(_)
Sorted(s) == IF s = <<>> THEN <<>> ELSE Insert(Head(s), Sorted(Tail(s)))

\* list(a_set): some listing of the set (here: descending, so sorting acts)
RECURSIVE Listing(_)
Listing(S) ==
    IF S = {} THEN <<>>
    ELSE LET m == CHOOSE x \in S : \A y \in S : y <= x
         IN <<m>> \o Listing(S \ {m})

(***************************************************************************)
(* Range Encoder: _list_to_ranges, _fmt_code, _fmt_range.                  *)
(***************************************************************************)
\* a slip in the contiguity test: it looks one past the end of the run
ContiguousOffByOne(currentrange, item) == currentrange[2] + 1 = item

\* `if currentrange[1] == item` (Python indexes from 0)
Contiguous(currentrange, item) == currentrange[2] = item

\* the for loop of _list_to_ranges from position i on
RECURSIVE ScanRanges(_, _, _)
ScanRanges(new_list, i, currentrange) ==
    IF i > Len(new_list) THEN <<currentrange>>
    ELSE IF Contiguous(currentrange, new_list[i])
         THEN ScanRanges(new_list, i + 1, <<currentrange[1], currentrange[2] + 1>>)
         ELSE <<currentrange>> \o ScanRanges(new_list, i + 1, <<new_list[i], new_list[i] + 1>>)

list_to_ranges(list) ==
    LET new_list == Sorted(list)
        start == new_list[1]
    IN ScanRanges(new_list, 2, <<start, start + 1>>)

HexDigits == <<"0", "1", "2", "3", "4", "5", "6", "7", "8", "9", "A", "B", "C", "D", "E", "F">>

\* "{:x}".format(code).upper(), as the sequence of its characters
RECURSIVE fmt_code(_)
fmt_code(code) ==
    IF code < 16 THEN <<HexDigits[code + 1]>>
    ELSE fmt_code(code \div 16) \o <<HexDigits[(code % 16) + 1]>>

\* one token of the unicode-range attribute, as the sequence of its characters
fmt_token(r) ==
    IF r[1] = r[2] - 1 THEN <<"U+">> \o fmt_code(r[1])
    ELSE <<"U+">> \o fmt_code(r[1]) \o <<"-">> \o fmt_code(r[2] - 1)

\* the tokens that ",".join puts together
fmt_range(glyphs) ==
    LET rs == list_to_ranges(Sorted(Listing(glyphs)))
    IN [i \in 1..Len(rs) |-> fmt_token(rs[i])]

(***************************************************************************)
(* Font Priority Resolver: _font_priorities (without its memo).            *)
(***************************************************************************)
\* Python's `a is not b` on str objects
IsNot(a, b) == ~(a.value = b.value /\ a.id = b.id)

\* for lang_info in utils.supported_languages(): append if not in font_names
RECURSIVE AppendLanguageFonts(_, _, _)
AppendLanguageFonts(names, langs, i) ==
    IF i > Len(langs) THEN names
    ELSE LET name == langs[i].default_font
         IN AppendLanguageFonts(
                IF name \notin Range(names) THEN Append(names, name) ELSE names,
                langs, i + 1)

\* [fn for fn in FONT_MANIFEST if fn not in font_names] (font_names as before the extend)
ManifestRest(names, manifest) == SelectSeq(manifest, LAMBDA fn : fn \notin Range(names))

font_priorities(default, langs, manifest) ==
    LET start == <<default.value>>
        latin == IF IsNot(default, NOTO_SANS_LATIN)
                 THEN Append(start, NOTO_SANS_LATIN.value)
                 ELSE start
        with_langs == AppendLanguageFonts(latin, langs, 1)
    IN with_langs \o ManifestRest(with_langs, manifest)

(***************************************************************************)
(* Values of the variables a specification does not use.                   *)
(***************************************************************************)
EmptyMap == [x \in {} |-> {}]

PureIdle ==
    /\ input_list = <<>>
    /\ ranges = <<>>
    /\ default_font = NOTO_SANS_LATIN
    /\ font_names = <<>>

FullIdle ==
    /\ previous_glyphs = {}
    /\ run = 0
    /\ first_css = EmptyMap

WalkIdle ==
    /\ text = <<>>
    /\ candidates = <<>>
    /\ font_idx = 0
    /\ remaining_glyphs = {}
    /\ reg_subsets = <<>>
    /\ bold_subsets = <<>>
    /\ skipped = <<>>

GenIdle ==
    /\ files = EmptyMap
    /\ glyph_cache = EmptyMap
    /\ priority_cache = EmptyMap
    /\ encoded = {}
    /\ lang_idx = 0

(***************************************************************************)
(* The Range Encoder on every non-empty set of a pool of integers.         *)
(***************************************************************************)
RangeItems == (65 .. (65 + MaxRun)) \cup {88, 90, 91}

InitRanges ==
    /\ pc = "ranges_call"
    /\ \E S \in (SUBSET RangeItems) \ {{}} :
           input_list \in {Listing(S), Sorted(Listing(S))}
    /\ ranges = <<>>
    /\ default_font = NOTO_SANS_LATIN
    /\ font_names = <<>>
    /\ font_manifest = <<>> /\ languages = <<>> /\ source_fonts = EmptyMap
    /\ FullIdle /\ WalkIdle /\ GenIdle

ListToRanges ==
    /\ pc = "ranges_call"
    /\ ranges' = list_to_ranges(input_list)
    /\ pc' = "ranges_done"
    /\ UNCHANGED <<input_list, default_font, font_names, confVars, fullVars, walkVars, genVars>>

NextRanges == ListToRanges

SpecRanges == InitRanges /\ [][NextRanges]_vars

(***************************************************************************)
(* The Font Priority Resolver on every small configuration.                *)
(***************************************************************************)
FontNames == {"NotoSans", "FontA", "FontB", "FontC"}

LangCodes == <<"en", "ar", "hi", "fr">>

\* a language record: international code, default font, and its UI text
LangInfo(code, font, t) == [code |-> code, default_font |-> font, text |-> t]

\* the manifest is keyed by family name, so its entries are distinct
Manifests(names) ==
    {m \in UNION {[1..n -> names] : n \in 0..Cardinality(names)} :
        \A i, j \in 1..Len(m) : i # j => m[i] # m[j]}

LanguageLists(names, n) ==
    UNION {{[i \in 1..k |-> LangInfo(LangCodes[i], f[i], <<>>)] : f \in [1..k -> names]} :
              k \in 0..n}

StrObjects(names) == {Json(n) : n \in names} \cup {NOTO_SANS_LATIN}

InitPriorities ==
    /\ pc = "prio_call"
    /\ default_font \in StrObjects(FontNames)
    /\ font_manifest \in Manifests(FontNames)
    /\ languages \in LanguageLists(FontNames, MaxLangs)
    /\ font_names = <<>>
    /\ input_list = <<>> /\ ranges = <<>>
    /\ source_fonts = EmptyMap
    /\ FullIdle /\ WalkIdle /\ GenIdle

FontPriorities ==
    /\ pc = "prio_call"
    /\ font_names' = font_priorities(default_font, languages, font_manifest)
    /\ pc' = "prio_done"
    /\ UNCHANGED <<input_list, ranges, default_font, confVars, fullVars, walkVars, genVars>>

NextPriorities == FontPriorities

SpecPriorities == InitPriorities /\ [][NextPriorities]_vars

(***************************************************************************)
(* Files and fonts.  A file name is the sequence of its dot-separated      *)
(* parts; OUTPUT_PATH is the map `files` from names to contents.           *)
(***************************************************************************)
Codepoints == 15 .. (15 + MaxCode)

\* a font file: family and weight, the keys of its cmap tables, head.unitsPerEm
FontFile(family, is_bold, glyphs, upm) ==
    [kind |-> "woff", family |-> family, is_bold |-> is_bold, glyphs |-> glyphs,
     unitsPerEm |-> upm]

CSS_HEADER == "auto-generated file banner"

\* f.write(CSS_HEADER); f.write("".join(font_faces))
CssFile(font_faces) == [kind |-> "css", header |-> CSS_HEADER, font_faces |-> font_faces]

scoped(scope, name) == <<scope, name>>

woff_font_path(name, is_bold) == name \o <<IF is_bold THEN "700" ELSE "400", "woff">>

gen_font_face(family, url, is_bold, unicodes) ==
    [family |-> family, url |-> url, weight |-> IF is_bold THEN "bold" ELSE "normal",
     unicodes |-> unicodes]

\* open(name, "w") ... write: the file is created or replaced
WriteFile(fs, name, content) ==
    [n \in DOMAIN fs \cup {name} |-> IF n = name THEN content ELSE fs[n]]

\* os.unlink of each name
Unlink(fs, names) == [n \in DOMAIN fs \ names |-> fs[n]]

\* re.match(r"{scope}.*?\.css", name) or re.match(r"{scope}.*?\.woff", name)
MatchesScope(scope, name) ==
    /\ name[1] = scope
    /\ \E i \in 2..Len(name) : name[i] \in {"css", "woff"}

clean_up(scope, fs) == Unlink(fs, {n \in DOMAIN fs : MatchesScope(scope, n)})

\* _font_glyphs under utils.memoize: the memo answers for a path it has seen
FontGlyphs(path) ==
    IF path \in DOMAIN glyph_cache THEN glyph_cache[path] ELSE files[path].glyphs

\* the memo of _font_glyphs after the paths were asked for
GlyphCacheWith(paths) ==
    [q \in DOMAIN glyph_cache \cup paths |-> FontGlyphs(q)]

\* _font_priorities under utils.memoize, keyed by the argument's value
CachedPriorities(default) ==
    IF default.value \in DOMAIN priority_cache THEN priority_cache[default.value]
    ELSE font_priorities(default, languages, font_manifest)

PriorityCacheWith(default) ==
    [k \in DOMAIN priority_cache \cup {default.value} |->
        IF k = default.value THEN CachedPriorities(default) ELSE priority_cache[k]]

(***************************************************************************)
(* Full fonts: _full_font_face, _gen_full_css_modern, _gen_full_css_basic, *)
(* _write_full_font, command_gen_full_fonts.                               *)
(***************************************************************************)
\* the guard dropped: a font-face is generated for an empty glyph set too
face_always(glyphs) == TRUE

\* `if not glyphs: return ""` of _full_font_face, negated
face_has_glyphs(glyphs) == glyphs # {}

\* _fmt_range(glyphs) reaches new_list[0] of _list_to_ranges, which raises
\* IndexError on an empty list
RaisesIndexError(glyphs) == glyphs = {}

\* one of the calls of _fmt_range raised, which ends the run
Raised(calls) == \E g \in calls : RaisesIndexError(g)

\* _full_font_face: the CSS text it returns ("" is the empty sequence of
\* blocks) and the glyph sets it has called _fmt_range with
full_font_face(font_family, font_name, is_bold, omit_glyphs) ==
    LET file_path == woff_font_path(scoped(SCOPE_FULL, font_name), is_bold)
        glyphs == FontGlyphs(file_path) \ omit_glyphs
    IN IF ~face_has_glyphs(glyphs) THEN [css |-> <<>>, calls |-> {}]
       ELSE [css |-> IF RaisesIndexError(glyphs) THEN <<>>
                     ELSE <<gen_font_face(font_family, file_path, is_bold, fmt_range(glyphs))>>,
             calls |-> {glyphs}]

\* the accumulator fed before the font-faces of the family are generated
modern_step_early(acc, font_name) ==
    LET seen == acc.previous_glyphs
                    \cup FontGlyphs(woff_font_path(scoped(SCOPE_FULL, font_name), FALSE))
        reg == full_font_face(SCOPE_FULL, font_name, FALSE, seen)
        bold == full_font_face(SCOPE_FULL, font_name, TRUE, seen)
    IN [font_faces |-> acc.font_faces \o reg.css \o bold.css,
        previous_glyphs |-> seen,
        calls |-> acc.calls \cup reg.calls \cup IF Raised(reg.calls) THEN {} ELSE bold.calls]

\* the accumulator never fed: no glyph is excluded from a later family
modern_step_no_exclusion(acc, font_name) ==
    LET reg == full_font_face(SCOPE_FULL, font_name, FALSE, acc.previous_glyphs)
        bold == full_font_face(SCOPE_FULL, font_name, TRUE, acc.previous_glyphs)
    IN [font_faces |-> acc.font_faces \o reg.css \o bold.css,
        previous_glyphs |-> acc.previous_glyphs,
        calls |-> acc.calls \cup reg.calls \cup IF Raised(reg.calls) THEN {} ELSE bold.calls]

\* one iteration of the loop of _gen_full_css_modern
modern_step(acc, font_name) ==
    LET reg == full_font_face(SCOPE_FULL, font_name, FALSE, acc.previous_glyphs)
        bold == full_font_face(SCOPE_FULL, font_name, TRUE, acc.previous_glyphs)
    IN [font_faces |-> acc.font_faces \o reg.css \o bold.css,
        previous_glyphs |-> acc.previous_glyphs
                                \cup FontGlyphs(woff_font_path(scoped(SCOPE_FULL, font_name), FALSE)),
        calls |-> acc.calls \cup reg.calls \cup IF Raised(reg.calls) THEN {} ELSE bold.calls]

RECURSIVE ModernLoop(_, _, _)
ModernLoop(prio, i, acc) ==
    IF i > Len(prio) \/ Raised(acc.calls) THEN acc
    ELSE ModernLoop(prio, i + 1, modern_step(acc, prio[i]))

\* the accumulator kept from the previous call
stale_previous_glyphs(old) == old

\* `previous_glyphs = set()` at the start of _gen_full_css_modern
fresh_previous_glyphs(old) == {}

FullFontPaths(names) ==
    {woff_font_path(scoped(SCOPE_FULL, n), b) : n \in names, b \in BOOLEAN}

(***************************************************************************)
(* command_gen_full_fonts, run twice in succession.                        *)
(***************************************************************************)
GenFonts == {"NotoSans", "FontA"}

GenManifest == <<"NotoSans", "FontA">>

\* what a previous run with another configuration may have left in OUTPUT_PATH
StaleFiles ==
    [n \in {<<SCOPE_FULL, "zz", "modern", "css">>, <<SCOPE_COMMON, "css">>} |-> CssFile(<<>>)]

\* the bold variant covers what the regular one does, nothing, everything, or
\* exactly what the regular one does not
BoldCoverages == [reg \in SUBSET Codepoints |-> {reg, {}, Codepoints, Codepoints \ reg}]

\* the two weights of a family: any regular coverage, and a bold one beside it
Families(name, bolds, upms) ==
    {[reg |-> FontFile(name, FALSE, g, u[1]), bold |-> FontFile(name, TRUE, b, u[2])] :
        <<g, b>> \in {c \in (SUBSET Codepoints) \X (SUBSET Codepoints) : c[2] \in bolds[c[1]]},
        u \in upms}

\* every source font of the manifest
SourceFonts(bolds, upms) ==
    {[n \in GenFonts |-> IF n = "NotoSans" THEN a ELSE b] :
        a \in Families("NotoSans", bolds, upms), b \in Families("FontA", bolds, upms)}

\* noto_source.get_path + _load_font
SourceFont(font_name, is_bold) ==
    IF is_bold THEN source_fonts[font_name].bold ELSE source_fonts[font_name].reg

InitFull ==
    /\ pc = "full_clean"
    /\ font_manifest = GenManifest
    /\ languages \in LanguageLists(GenFonts, 2) \ {<<>>}
    /\ source_fonts \in SourceFonts(BoldCoverages, {<<MERGE_UNITS_PER_EM, MERGE_UNITS_PER_EM>>})
    /\ files \in {EmptyMap, StaleFiles}
    /\ glyph_cache = EmptyMap
    /\ priority_cache = EmptyMap
    /\ encoded = {}
    /\ lang_idx = 0
    /\ previous_glyphs = {}
    /\ run = 1
    /\ first_css = EmptyMap
    /\ PureIdle /\ WalkIdle

\* _clean_up(SCOPE_FULL)
CleanUpFull ==
    /\ pc = "full_clean"
    /\ files' = clean_up(SCOPE_FULL, files)
    /\ lang_idx' = 1
    /\ pc' = "full_fonts"
    /\ UNCHANGED <<pureVars, confVars, fullVars, walkVars, glyph_cache, priority_cache, encoded>>

\* _write_full_font: the source font saved under its full-font name
write_full_font(fs, font_name, is_bold) ==
    WriteFile(fs, woff_font_path(scoped(SCOPE_FULL, font_name), is_bold),
              SourceFont(font_name, is_bold))

\* one iteration of `for font_name in noto_source.FONT_MANIFEST`
WriteFullFonts ==
    /\ pc = "full_fonts"
    /\ LET font_name == font_manifest[lang_idx]
       IN files' = write_full_font(write_full_font(files, font_name, FALSE), font_name, TRUE)
    /\ IF lang_idx < Len(font_manifest)
       THEN lang_idx' = lang_idx + 1 /\ pc' = "full_fonts"
       ELSE lang_idx' = 1 /\ pc' = "full_modern"
    /\ UNCHANGED <<pureVars, confVars, fullVars, walkVars, glyph_cache, priority_cache, encoded>>

modern_css_name(lang_info) == scoped(SCOPE_FULL, lang_info.code) \o <<"modern", "css">>

basic_css_name(lang_info) == scoped(SCOPE_FULL, lang_info.code) \o <<"basic", "css">>

\* _gen_full_css_modern(lang_info)
GenFullCssModern ==
    /\ pc = "full_modern"
    /\ LET lang_info == languages[lang_idx]
           default == Json(lang_info.default_font)
           prio == CachedPriorities(default)
           res == ModernLoop(prio, 1, [font_faces |-> <<>>,
                                       previous_glyphs |-> fresh_previous_glyphs(previous_glyphs),
                                       calls |-> {}])
       IN /\ priority_cache' = PriorityCacheWith(default)
          /\ glyph_cache' = GlyphCacheWith(FullFontPaths(Range(prio)))
          /\ previous_glyphs' = res.previous_glyphs
          /\ encoded' = encoded \cup res.calls
          /\ IF Raised(res.calls)
             THEN pc' = "aborted_index_error" /\ files' = files
             ELSE /\ files' = WriteFile(files, modern_css_name(lang_info), CssFile(res.font_faces))
                  /\ pc' = "full_basic"
    /\ UNCHANGED <<pureVars, confVars, run, first_css, walkVars, lang_idx>>

\* _gen_full_css_basic(lang_info) and the step of the loop over the languages
GenFullCssBasic ==
    /\ pc = "full_basic"
    /\ LET lang_info == languages[lang_idx]
           default_font_name == lang_info.default_font
           reg == full_font_face(SCOPE_FULL, default_font_name, FALSE, {})
           bold == full_font_face(SCOPE_FULL, default_font_name, TRUE, {})
       IN /\ glyph_cache' = GlyphCacheWith(FullFontPaths({default_font_name}))
          /\ encoded' = encoded \cup reg.calls \cup IF Raised(reg.calls) THEN {} ELSE bold.calls
          /\ IF Raised(reg.calls \cup bold.calls)
             THEN /\ pc' = "aborted_index_error"
                  /\ files' = WriteFile(files, basic_css_name(lang_info),
                                        CssFile(IF Raised(reg.calls) THEN <<>> ELSE reg.css))
                  /\ lang_idx' = lang_idx
             ELSE /\ files' = WriteFile(files, basic_css_name(lang_info),
                                        CssFile(reg.css \o bold.css))
                  /\ IF lang_idx < Len(languages)
                     THEN lang_idx' = lang_idx + 1 /\ pc' = "full_modern"
                     ELSE lang_idx' = 0 /\ pc' = "full_done"
    /\ UNCHANGED <<pureVars, confVars, fullVars, walkVars, priority_cache>>

\* the noto-full CSS files of a directory
FullCss(fs) ==
    [n \in {m \in DOMAIN fs : m[1] = SCOPE_FULL /\ fs[m].kind = "css"} |-> fs[n]]

\* the command is given again: in the same process (the memos are kept) or in
\* a new one (they are empty)
RunAgain ==
    /\ pc = "full_done"
    /\ run = 1
    /\ run' = 2
    /\ first_css' = FullCss(files)
    /\ \/ UNCHANGED <<glyph_cache, priority_cache, previous_glyphs>>
       \/ /\ glyph_cache' = EmptyMap
          /\ priority_cache' = EmptyMap
          /\ previous_glyphs' = {}
    /\ pc' = "full_clean"
    /\ UNCHANGED <<pureVars, confVars, walkVars, files, encoded, lang_idx>>

NextFull ==
    \/ CleanUpFull
    \/ WriteFullFonts
    \/ GenFullCssModern
    \/ GenFullCssBasic
    \/ RunAgain

SpecFull == InitFull /\ [][NextFull]_vars

(***************************************************************************)
(* Subset fonts: _get_subset_font, _cannot_merge, _subset_and_merge_fonts, *)
(* _merge_fonts, _write_inline_font, _generate_inline_font_css,            *)
(* command_gen_subset_fonts.                                               *)
(***************************************************************************)
\* the text of _get_common_strings: never empty, with repeated characters
COMMON_TEXT == <<15, 16, 15>>

\* a text with the given characters, the first of them twice
TextOf(S) == IF S = {} THEN <<>> ELSE Listing(S) \o <<Listing(S)[1]>>

\* one configured language, whose UI text is empty, one character, or every character
SubsetLanguages ==
    {<<LangInfo(c[1], c[2], TextOf(S))>> :
        c \in {<<"en", "NotoSans">>, <<"ar", "FontA">>}, S \in {{}, {15}, Codepoints}}

\* the bold variant covers what the regular one does, or nothing
SameOrEmpty == [reg \in SUBSET Codepoints |-> {reg, {}}]

\* head.unitsPerEm of the two weights of a family: both fit for merging, or one not
UnitsPerEmPairs == {<<1000, 1000>>, <<2048, 1000>>, <<1000, 2048>>}

\* job 0 is the common subset, job k the k-th language
JobText(k) == IF k = 0 THEN COMMON_TEXT ELSE languages[k].text

JobDefault(k) == IF k = 0 THEN NOTO_SANS_LATIN ELSE Json(languages[k].default_font)

JobName(k) == IF k = 0 THEN <<SCOPE_COMMON>> ELSE scoped(SCOPE_SUBSET, languages[k].code)

JobFamily(k) == IF k = 0 THEN SCOPE_COMMON ELSE SCOPE_SUBSET

\* _get_subset_font: the font of the file cut down to the characters of the text
get_subset_font(source_file_path, t) ==
    LET font == files[source_file_path]
    IN FontFile(font.family, font.is_bold, font.glyphs \cap Range(t), font.unitsPerEm)

cannot_merge(font) == font.unitsPerEm # MERGE_UNITS_PER_EM

\* only the regular subset is looked at
skip_if_regular_cannot_merge(reg_subset, bold_subset) == cannot_merge(reg_subset)

\* `if _cannot_merge(reg_subset) or _cannot_merge(bold_subset)`
skip_candidate(reg_subset, bold_subset) ==
    cannot_merge(reg_subset) \/ cannot_merge(bold_subset)

\* the bold font's coverage is taken off instead of the regular font's
credited_bold_glyphs(font_name) ==
    FontGlyphs(woff_font_path(scoped(SCOPE_FULL, font_name), TRUE))

\* `_font_glyphs(full_reg_path)`, what a merged family takes off remaining_glyphs
credited_glyphs(font_name) ==
    FontGlyphs(woff_font_path(scoped(SCOPE_FULL, font_name), FALSE))

\* the walk never breaks
never_covered(remaining) == FALSE

\* `if not remaining_glyphs: break`
all_covered(remaining) == remaining = {}

\* the guard dropped: a font-face is written for an empty glyph set too
inline_always(glyphs) == TRUE

\* `if not glyphs: return` of _write_inline_font, negated
inline_has_glyphs(glyphs) == glyphs # {}

\* _write_inline_font: what it writes and the glyph sets it calls _fmt_range with
write_inline_font(font_path, font_family, is_bold) ==
    LET data_uri == <<"data:application/x-font-woff;charset=utf-8;base64", files[font_path]>>
        glyphs == FontGlyphs(font_path)
    IN IF ~inline_has_glyphs(glyphs) THEN [css |-> <<>>, calls |-> {}]
       ELSE [css |-> IF RaisesIndexError(glyphs) THEN <<>>
                     ELSE <<gen_font_face(font_family, data_uri, is_bold, fmt_range(glyphs))>>,
             calls |-> {glyphs}]

\* merger.merge: the cmap of the merged font is the union of the cmaps
merged_font(family, is_bold, fonts) ==
    FontFile(family, is_bold, UNION {fonts[i].glyphs : i \in 1..Len(fonts)}, MERGE_UNITS_PER_EM)

InitSubset ==
    /\ pc = "subset_clean"
    /\ font_manifest = GenManifest
    /\ languages \in SubsetLanguages
    /\ source_fonts \in SourceFonts(SameOrEmpty, UnitsPerEmPairs)
    /\ files = [n \in DOMAIN StaleFiles \cup FullFontPaths(GenFonts) |->
                  IF n \in DOMAIN StaleFiles THEN StaleFiles[n]
                  ELSE SourceFont(n[2], n[3] = "700")]
    /\ glyph_cache = EmptyMap
    /\ priority_cache = EmptyMap
    /\ encoded = {}
    /\ lang_idx = 0
    /\ PureIdle /\ FullIdle /\ WalkIdle

\* _clean_up(SCOPE_COMMON); _clean_up(SCOPE_SUBSET)
CleanUpSubset ==
    /\ pc = "subset_clean"
    /\ files' = clean_up(SCOPE_SUBSET, clean_up(SCOPE_COMMON, files))
    /\ lang_idx' = 0
    /\ pc' = "walk_start"
    /\ UNCHANGED <<pureVars, confVars, fullVars, walkVars, glyph_cache, priority_cache, encoded>>

\* _subset_and_merge_fonts up to the first iteration of its loop
StartSubsetAndMerge ==
    /\ pc = "walk_start"
    /\ text' = JobText(lang_idx)
    /\ reg_subsets' = <<>>
    /\ bold_subsets' = <<>>
    /\ skipped' = <<>>
    /\ remaining_glyphs' = {JobText(lang_idx)[i] : i \in 1..Len(JobText(lang_idx))}
    /\ candidates' = CachedPriorities(JobDefault(lang_idx))
    /\ priority_cache' = PriorityCacheWith(JobDefault(lang_idx))
    /\ font_idx' = 1
    /\ pc' = "walk"
    /\ UNCHANGED <<pureVars, confVars, fullVars, files, glyph_cache, encoded, lang_idx>>

\* one iteration of `for font_name in _font_priorities(default_font)`
WalkCandidate ==
    /\ pc = "walk"
    /\ LET font_name == candidates[font_idx]
           full_reg_path == woff_font_path(scoped(SCOPE_FULL, font_name), FALSE)
           full_bold_path == woff_font_path(scoped(SCOPE_FULL, font_name), TRUE)
           reg_subset == get_subset_font(full_reg_path, text)
           bold_subset == get_subset_font(full_bold_path, text)
           left == remaining_glyphs \ credited_glyphs(font_name)
       IN IF skip_candidate(reg_subset, bold_subset)
          THEN /\ skipped' = Append(skipped, font_name)
               /\ UNCHANGED <<reg_subsets, bold_subsets, remaining_glyphs, glyph_cache>>
               /\ IF font_idx < Len(candidates)
                  THEN font_idx' = font_idx + 1 /\ pc' = "walk"
                  ELSE font_idx' = font_idx /\ pc' = "merge"
          ELSE /\ reg_subsets' = Append(reg_subsets, reg_subset)
               /\ bold_subsets' = Append(bold_subsets, bold_subset)
               /\ remaining_glyphs' = left
               /\ glyph_cache' = GlyphCacheWith({full_reg_path})
               /\ skipped' = skipped
               /\ IF ~all_covered(left) /\ font_idx < Len(candidates)
                  THEN font_idx' = font_idx + 1 /\ pc' = "walk"
                  ELSE font_idx' = font_idx /\ pc' = "merge"
    /\ UNCHANGED <<pureVars, confVars, fullVars, text, candidates, files, priority_cache,
                   encoded, lang_idx>>

\* the two _merge_fonts calls that end _subset_and_merge_fonts.  What the
\* merger does with an empty list of fonts is not this program's: it raises,
\* or it saves a font without glyphs.
MergeFonts ==
    /\ pc = "merge"
    /\ LET reg_path == woff_font_path(JobName(lang_idx), FALSE)
           bold_path == woff_font_path(JobName(lang_idx), TRUE)
           merged == WriteFile(
                         WriteFile(files, reg_path,
                                   merged_font(JobFamily(lang_idx), FALSE, reg_subsets)),
                         bold_path, merged_font(JobFamily(lang_idx), TRUE, bold_subsets))
       IN \/ /\ files' = merged
             /\ pc' = "merged"
          \/ /\ reg_subsets = <<>>
             /\ files' = files
             /\ pc' = "aborted_merge"
    /\ UNCHANGED <<pureVars, confVars, fullVars, walkVars, glyph_cache, priority_cache,
                   encoded, lang_idx>>

\* command_gen_subset_fonts goes on to the next language, or to the CSS
NextJob ==
    /\ pc = "merged"
    /\ IF lang_idx < Len(languages)
       THEN lang_idx' = lang_idx + 1 /\ pc' = "walk_start"
       ELSE lang_idx' = 0 /\ pc' = "inline"
    /\ UNCHANGED <<pureVars, confVars, fullVars, walkVars, files, glyph_cache, priority_cache,
                   encoded>>

\* _generate_inline_font_css(name, font_family), for the common subset and
\* then for each language
GenerateInlineFontCss ==
    /\ pc = "inline"
    /\ LET name == JobName(lang_idx)
           font_path_reg == woff_font_path(name, FALSE)
           font_path_bold == woff_font_path(name, TRUE)
           reg == write_inline_font(font_path_reg, JobFamily(lang_idx), FALSE)
           bold == write_inline_font(font_path_bold, JobFamily(lang_idx), TRUE)
           output_name == name \o <<"css">>
       IN /\ glyph_cache' = GlyphCacheWith({font_path_reg, font_path_bold})
          /\ encoded' = encoded \cup reg.calls \cup IF Raised(reg.calls) THEN {} ELSE bold.calls
          /\ IF Raised(reg.calls \cup bold.calls)
             THEN /\ files' = WriteFile(files, output_name,
                                        CssFile(IF Raised(reg.calls) THEN <<>> ELSE reg.css))
                  /\ pc' = "aborted_index_error"
                  /\ lang_idx' = lang_idx
             ELSE /\ files' = Unlink(WriteFile(files, output_name, CssFile(reg.css \o bold.css)),
                                     {font_path_reg, font_path_bold})
                  /\ IF lang_idx < Len(languages)
                     THEN lang_idx' = lang_idx + 1 /\ pc' = "inline"
                     ELSE lang_idx' = 0 /\ pc' = "subset_done"
    /\ UNCHANGED <<pureVars, confVars, fullVars, walkVars, priority_cache>>

NextSubset ==
    \/ CleanUpSubset
    \/ StartSubsetAndMerge
    \/ WalkCandidate
    \/ MergeFonts
    \/ NextJob
    \/ GenerateInlineFontCss

SpecSubset == InitSubset /\ [][NextSubset]_vars

(***************************************************************************)
(* main: one of the two generation commands.                               *)
(***************************************************************************)
Init == InitFull \/ InitSubset

Next == NextFull \/ NextSubset

Spec == Init /\ [][Next]_vars

(***************************************************************************)
(* Properties of the Range Encoder.                                        *)
(***************************************************************************)
\* the integers of a half-open interval [start, end)
IntervalSet(r) == r[1] .. (r[2] - 1)

\* C3: for a non-empty set of integers, the intervals _list_to_ranges yields
\* decode to exactly the input set, each is a non-empty [start, end), they
\* ascend, and consecutive intervals are neither adjacent nor overlapping.
C3_RangesExactAscendingMaximal ==
    pc = "ranges_done" =>
        /\ UNION {IntervalSet(ranges[i]) : i \in 1..Len(ranges)} = Range(input_list)
        /\ \A i \in 1..Len(ranges) : ranges[i][1] < ranges[i][2]
        /\ \A i \in 1..(Len(ranges) - 1) : ranges[i][2] < ranges[i + 1][1]

\* the example of the specification: {65, 66, 67, 90} yields [(65,68), (90,91)]
C3_Witness ==
    /\ pc = "ranges_done"
    /\ Range(input_list) = {65, 66, 67, 90}
    /\ ranges = << <<65, 68>>, <<90, 91>> >>

(***************************************************************************)
(* Properties of the Font Priority Resolver.                               *)
(***************************************************************************)
Occurrences(s, x) == Cardinality({i \in 1..Len(s) : s[i] = x})

\* C4: the list _font_priorities returns has no duplicate entries, starts
\* with the default font and holds the common Latin font exactly once, also
\* for a default font equal to "NotoSans" that was read from configuration.
C4_NoDuplicatesDefaultFirst ==
    pc = "prio_done" =>
        /\ \A i, j \in 1..Len(font_names) : i # j => font_names[i] # font_names[j]
        /\ font_names[1] = default_font.value
        /\ Occurrences(font_names, NOTO_SANS_LATIN.value) = 1

\* keep the first occurrence of every entry
RECURSIVE Distinct(_)
Distinct(s) ==
    IF s = <<>> THEN <<>>
    ELSE LET init == Distinct(SubSeq(s, 1, Len(s) - 1))
             last == s[Len(s)]
         IN IF last \in Range(init) THEN init ELSE Append(init, last)

\* C5: _font_priorities returns the default font, then the common Latin font
\* when the default differs from it, then the configured languages' default
\* fonts not yet listed in configured order, then the manifest fonts not yet
\* listed in manifest order.
C5_ExactPrioritySequence ==
    pc = "prio_done" =>
        font_names =
            Distinct(<<default_font.value, NOTO_SANS_LATIN.value>>
                     \o [i \in 1..Len(languages) |-> languages[i].default_font]
                     \o font_manifest)

(***************************************************************************)
(* Reading a unicode-range attribute back, as a browser does.              *)
(***************************************************************************)
DigitValue(d) == CHOOSE v \in 0..15 : HexDigits[v + 1] = d

RECURSIVE HexValue(_)
HexValue(digits) ==
    IF Len(digits) = 1 THEN DigitValue(digits[1])
    ELSE 16 * HexValue(SubSeq(digits, 1, Len(digits) - 1)) + DigitValue(digits[Len(digits)])

\* the codepoints of one token, U+X or U+X-Y (Y included)
TokenSet(t) ==
    IF \E k \in 1..Len(t) : t[k] = "-"
    THEN LET k == CHOOSE k \in 1..Len(t) : t[k] = "-"
         IN HexValue(SubSeq(t, 2, k - 1)) .. HexValue(SubSeq(t, k + 1, Len(t)))
    ELSE {HexValue(SubSeq(t, 2, Len(t)))}

\* the codepoints a font-face block claims
Claimed(face) == UNION {TokenSet(face.unicodes[i]) : i \in 1..Len(face.unicodes)}

\* the modern CSS files written for the configured languages
ModernLangs ==
    {k \in 1..Len(languages) : modern_css_name(languages[k]) \in DOMAIN files}

ModernFaces(k) == files[modern_css_name(languages[k])].font_faces

(***************************************************************************)
(* Properties of full-font generation.                                     *)
(***************************************************************************)
\* C1 as stated: in a language's modern CSS no codepoint is claimed by two
\* font-face blocks, over all families of the priority list and both weights.
C1_AllBlocksDisjoint ==
    \A k \in ModernLangs :
        \A i, j \in 1..Len(ModernFaces(k)) :
            i # j => Claimed(ModernFaces(k)[i]) \cap Claimed(ModernFaces(k)[j]) = {}

\* C1 as amended: a block of a language's modern CSS claims no codepoint
\* that a regular-weight block before it in the file claims, unless it is the
\* bold block of the same family directly after its regular block; so no
\* codepoint is claimed by two regular-weight blocks.
C1_RegularBlocksDisjoint ==
    \A k \in ModernLangs :
        \A i, j \in 1..Len(ModernFaces(k)) :
            LET a == ModernFaces(k)[i]
                b == ModernFaces(k)[j]
            IN (/\ i < j
                /\ a.weight = "normal"
                /\ ~(j = i + 1 /\ b.weight = "bold" /\ b.url[2] = a.url[2]))
                   => Claimed(a) \cap Claimed(b) = {}

\* a later family's block was cut down by the exclusion of an earlier family's glyphs
C1_Witness ==
    \E k \in ModernLangs :
        \E i, j \in 1..Len(ModernFaces(k)) :
            LET a == ModernFaces(k)[i]
                b == ModernFaces(k)[j]
            IN /\ i < j /\ a.weight = "normal" /\ b.weight = "normal"
               /\ Claimed(b) # SourceFont(b.url[2], FALSE).glyphs
               /\ Claimed(a) \cap SourceFont(b.url[2], FALSE).glyphs # {}

\* the families _font_priorities lists for a language
PriorityFamilies(k) ==
    {languages[k].default_font, NOTO_SANS_LATIN.value}
        \cup {languages[i].default_font : i \in 1..Len(languages)}
        \cup Range(font_manifest)

\* C2: the codepoints claimed by the blocks of a language's modern CSS are
\* exactly the codepoints covered by the fonts (either weight) of the
\* families of that language's priority list.
C2_UnionIsCoverage ==
    \A k \in ModernLangs :
        UNION {Claimed(ModernFaces(k)[i]) : i \in 1..Len(ModernFaces(k))}
            = UNION {SourceFont(n, b).glyphs : n \in PriorityFamilies(k), b \in BOOLEAN}

\* a modern CSS in which the exclusion removed a covered codepoint from a block
C2_Witness ==
    \E k \in ModernLangs :
        \E i \in 1..Len(ModernFaces(k)) :
            LET a == ModernFaces(k)[i]
            IN /\ Claimed(a) # {}
               /\ Claimed(a) # SourceFont(a.url[2], a.weight = "bold").glyphs

\* C7: after the second of two runs in succession the noto-full CSS files are
\* the same files with the same contents as after the first run.
C7_SecondRunSameCss ==
    (pc = "full_done" /\ run = 2) => FullCss(files) = first_css

\* the second run ended, having cleaned up and rewritten CSS with font-faces
C7_Witness ==
    /\ pc = "full_done" /\ run = 2
    /\ \E k \in ModernLangs : Len(ModernFaces(k)) >= 2
    /\ DOMAIN first_css # {}

(***************************************************************************)
(* Properties of subset-font generation.                                   *)
(***************************************************************************)
\* the merged regular subset of the job whose _subset_and_merge_fonts just ended
MergedRegular == files[woff_font_path(JobName(lang_idx), FALSE)]

FullFont(font_name, is_bold) == files[woff_font_path(scoped(SCOPE_FULL, font_name), is_bold)]

\* C6 as stated: when not every candidate was skipped, the merged regular
\* subset covers every distinct codepoint of the text.
C6_MergedCoversText ==
    (pc = "merged" /\ Len(skipped) < Len(candidates))
        => Range(text) \subseteq MergedRegular.glyphs

\* C6 as amended: when _subset_and_merge_fonts ends, the codepoints of the
\* text that the merged regular subset does not cover are exactly those left
\* in remaining_glyphs; it covers the whole text exactly when none is left.
C6_UncoveredIsRemaining ==
    pc = "merged" => Range(text) \ MergedRegular.glyphs = remaining_glyphs

\* a family was skipped, another was merged, and part of the text is not covered
C6_Witness ==
    /\ pc = "merged"
    /\ skipped # <<>> /\ reg_subsets # <<>>
    /\ remaining_glyphs # {}
    /\ MergedRegular.glyphs # {}

FamiliesOf(fonts) == [i \in 1..Len(fonts) |-> fonts[i].family]

\* the candidate the walk is at has a regular or a bold font off 1000 units per em
CandidateOffUnits ==
    \E b \in BOOLEAN : FullFont(candidates[font_idx], b).unitsPerEm # 1000

\* C8: a candidate of which either subset has unitsPerEm other than 1000 is
\* added to neither merge list, its name is recorded as skipped,
\* remaining_glyphs is left as it is and the walk goes on with the next
\* candidate (or ends after the last); the two merge lists always hold the
\* same families in the same order.
C8_SkipLeavesListsAlike ==
    [][/\ (pc = "walk" /\ CandidateOffUnits) =>
              /\ reg_subsets' = reg_subsets
              /\ bold_subsets' = bold_subsets
              /\ skipped' = Append(skipped, candidates[font_idx])
              /\ remaining_glyphs' = remaining_glyphs
              /\ IF font_idx < Len(candidates)
                 THEN pc' = "walk" /\ font_idx' = font_idx + 1
                 ELSE pc' = "merge"
       /\ FamiliesOf(reg_subsets') = FamiliesOf(bold_subsets')]_vars

\* a family was skipped for its bold font alone and a later family was merged
C8_Witness ==
    /\ pc = "merged"
    /\ reg_subsets # <<>>
    /\ \E i \in 1..Len(skipped) :
          /\ FullFont(skipped[i], FALSE).unitsPerEm = 1000
          /\ FullFont(skipped[i], TRUE).unitsPerEm # 1000
          /\ \A j \in 1..Len(reg_subsets) : reg_subsets[j].family # skipped[i]

\* C9 as stated: once remaining_glyphs is empty no further candidate is
\* subsetted or accumulated.
C9_NoCandidateOnceEmpty ==
    [][(pc = "walk" /\ remaining_glyphs = {})
           => UNCHANGED <<reg_subsets, bold_subsets, skipped>>]_vars

\* C9 as amended: the walk ends with the iteration in which a family is
\* accumulated and remaining_glyphs becomes (or is) empty, and while
\* remaining_glyphs is non-empty and candidates remain it goes on to the next
\* candidate; the walk is at a candidate with remaining_glyphs empty only for
\* an empty text, before any family was accumulated.
C9_StopsWhenCovered ==
    [][/\ (pc = "walk" /\ Len(reg_subsets') > Len(reg_subsets) /\ remaining_glyphs' = {})
              => pc' = "merge"
       /\ (pc = "walk" /\ remaining_glyphs' # {} /\ font_idx < Len(candidates))
              => (pc' = "walk" /\ font_idx' = font_idx + 1)
       /\ (pc' = "walk" /\ remaining_glyphs' = {}) => (text' = <<>> /\ reg_subsets' = <<>>)
       /\ (pc \in {"merge", "merged"}) => UNCHANGED <<reg_subsets, bold_subsets, skipped>>]_vars

\* the walk ended early: the text is covered and a candidate was not looked at
C9_Witness ==
    /\ pc = "merge"
    /\ text # <<>>
    /\ remaining_glyphs = {}
    /\ font_idx < Len(candidates)

(***************************************************************************)
(* Properties of both generation commands.                                 *)
(***************************************************************************)
\* C10: the Range Encoder is never called with an empty codepoint set, and
\* no run ends in its IndexError: a block without glyphs is left out.
C10_EncoderNeverEmpty ==
    /\ {} \notin encoded
    /\ pc # "aborted_index_error"

\* subset generation ended with a CSS whose bold block was left out, and the
\* regular one written
C10_Witness ==
    /\ pc = "subset_done"
    /\ \E n \in DOMAIN files :
          /\ n[1] = SCOPE_SUBSET
          /\ files[n].kind = "css"
          /\ Len(files[n].font_faces) = 1
          /\ files[n].font_faces[1].weight = "normal"

====
